---- MODULE Spec2Model ----
(***************************************************************************)
(* smtp2tg: SMTP-to-Telegram gateway.                                      *)
(* State machine of one mail session's Handler (MailServer) together with  *)
(* the TelegramTransport it sends through, and the pure helper validate.   *)
(*                                                                         *)
(* Strings whose characters matter (addresses, domains, mapping keys) are  *)
(* sequences of one-character strings.  Texts of which only the size       *)
(* matters (subject, body lines) are kept as byte counts.  Option<T> is a  *)
(* sequence of length 0 (None) or 1 (Some).                                *)
(***************************************************************************)
EXTENDS Integers, Sequences, FiniteSets, TLC

VARIABLES
    data,            \* MailServer.data: the chunks buffered so far
    headers,         \* MailServer.headers: Option<SomeHeaders>
    relay,           \* MailServer.relay: unknown-address policy (TRUE = "relay")
    tg,              \* MailServer.tg: TelegramTransport {recipients, default}
    fields,          \* MailServer.fields: enabled header fields
    address,         \* MailServer.address: the compiled address regex
    overflowChecks,  \* build profile: arithmetic overflow panics (TRUE) or wraps
    phase,           \* position of the session: "idle", "data", "relaying" or
                     \* "reporting" (data_end awaits an answer), "dead" (panicked)
    response,        \* Response returned by the latest Handler callback
    resolved,        \* Option: address and outcome of the get_id call made by rcpt
    sent,            \* requests of the latest data_end the platform answered
    last,            \* Option: what the latest relay_mail computed
    call,            \* the data_end in progress: what relay_mail read (job), the
                     \* step of its script (pc) and the request (pending) that
                     \* await the platform's answer
    vtext,           \* the text handed to validate
    vres,            \* Option: the result of validate(vtext)
    servers,         \* the MailServer clones handling concurrent sessions
    given            \* per session: the envelope and chunks its callbacks got

vars == <<data, headers, relay, tg, fields, address, overflowChecks, phase,
          response, resolved, sent, last, call, vtext, vres, servers, given>>

None == <<>>
Some(x) == <<x>>

(***************************************************************************)
(* Characters and the address regex                                        *)
(***************************************************************************)

\* the class [a-z0-9]
LowerAlnum ==
    {"a","b","c","d","e","f","g","h","i","j","k","l","m","n","o","p","q","r",
     "s","t","u","v","w","x","y","z","0","1","2","3","4","5","6","7","8","9"}

\* the class [-a-z0-9]
LowerAlnumDash == LowerAlnum \cup {"-"}

\* Regex::new("^(?P<user>[a-z0-9][-a-z0-9])(@({domains}))$"): the named groups
\* of the pattern and the escaped, "|"-joined alternatives of the domain group
\* (an empty domain set leaves the empty alternative).
NewAddressRegex(domains) ==
    [groups |-> {"user"},
     alternatives |-> IF domains = {} THEN {<<>>} ELSE domains]

\* Regex::captures: the text must be exactly one [a-z0-9], one [-a-z0-9], "@"
\* and one of the domain alternatives; the named group of the pattern spans
\* the first two characters.
captures(re, text) ==
    IF /\ Len(text) >= 3
       /\ text[1] \in LowerAlnum
       /\ text[2] \in LowerAlnumDash
       /\ text[3] = "@"
       /\ SubSeq(text, 4, Len(text)) \in re.alternatives
    THEN Some([g \in re.groups |-> SubSeq(text, 1, 2)])
    ELSE None

(***************************************************************************)
(* Recipient resolution                                                    *)
(***************************************************************************)

Ok(x) == [kind |-> "ok", val |-> x]
Err(e) == [kind |-> "err", val |-> e]
Panic == [kind |-> "panic", val |-> 0]

\* TelegramTransport::get: lookup of a key in the recipients table
get(name) ==
    IF name \in DOMAIN tg.recipients
    THEN Ok(tg.recipients[name])
    ELSE Err("not found")

\* MailServer::get_id.  caps["name"] indexes the captures by group name and
\* panics when the pattern has no group of that name.
get_id(name) ==
    LET caps == captures(address, name) IN
    IF caps # None /\ "name" \notin address.groups
    THEN Panic
    ELSE LET link == IF caps # None THEN caps[1]["name"] ELSE name
             r == get(link)
         IN IF r.kind = "ok" THEN Ok(r.val) ELSE Ok(tg.default)

(***************************************************************************)
(* Platform requests (TelegramTransport)                                   *)
(***************************************************************************)

\* TelegramTransport::send: the SendMessage request
send(to, msg) ==
    [kind |-> "text", to |-> to, text |-> Some(msg), items |-> <<>>, ok |-> TRUE]

\* TelegramTransport::debug: the message wrapped in <pre>..</pre>, sent to
\* the default channel
debug(msg) ==
    send(tg.default, [pre |-> TRUE, diag |-> msg, lines |-> <<>>, markup |-> <<>>])

\* TelegramTransport::debug for a message whose text holds tags: they go
\* into "<pre>{msg}</pre>" as they are
debug_text(msg, markup) ==
    send(tg.default, [pre |-> TRUE, diag |-> msg, lines |-> <<>>, markup |-> markup])

\* tgbot MediaGroup::new: a media group holds 2 to 10 items
MinGroupItems == 2
MaxGroupItems == 10
MediaGroupNew(attach) ==
    IF Len(attach) < MinGroupItems \/ Len(attach) > MaxGroupItems
    THEN Err("media group size")
    ELSE Ok(attach)

\* the captions of sendgroup: pos counts down from media.len(), the item
\* seen when pos == 1 gets the caption
Captions(media, msg) ==
    [i \in 1..Len(media) |->
        [file |-> media[i],
         caption |-> IF Len(media) - (i - 1) = 1 THEN Some(msg) ELSE None]]

\* TelegramTransport::sendgroup: the request it executes (SendMediaGroup for
\* more than one file, else SendDocument with the caption), or the error of
\* MediaGroup::new
sendgroup(to, media, msg) ==
    IF Len(media) > 1
    THEN IF MediaGroupNew(Captions(media, msg)).kind = "err"
         THEN MediaGroupNew(Captions(media, msg))
         ELSE Ok([kind |-> "group", to |-> to, text |-> None,
                  items |-> Captions(media, msg), ok |-> TRUE])
    ELSE Ok([kind |-> "document", to |-> to, text |-> None,
             items |-> <<[file |-> media[1], caption |-> Some(msg)]>>,
             ok |-> TRUE])

(***************************************************************************)
(* Message composition                                                     *)
(***************************************************************************)

\* A sized text: its characters that RE_SPECIAL matches and the others.
TextLen(t) == t.plain + t.special

\* encode: RE_SPECIAL.replace_all(text, "\\$1") puts a backslash (not itself
\* a special character) before every special character.
encode(t) == [plain |-> t.plain + t.special, special |-> t.special]

RECURSIVE SumLen(_)
SumLen(items) ==
    IF items = <<>> THEN 0 ELSE Head(items).len + SumLen(Tail(items))

\* [String]::join(sep).len() for a one-byte separator
JoinLen(items) ==
    IF items = <<>> THEN 0 ELSE SumLen(items) + (Len(items) - 1)

\* str::len() of a text part: its lines and their terminators
PartLen(part) ==
    LET body == [i \in 1..Len(part.lines) |-> [len |-> part.lines[i]]]
    IN SumLen(body) + (IF part.lines = <<>> THEN 0 ELSE Len(part.lines) - 1)
                    + (IF part.trailingNL THEN 1 ELSE 0)

\* the header lines of the reply: mail.rs 153-171
HeaderLines(h, mail) ==
    LET subject ==
            IF "subject" \in fields
            THEN IF mail.subject # None
                 THEN <<[kind |-> "subject",
                         len |-> 19 + TextLen(encode(mail.subject[1]))]>>
                 ELSE IF mail.thread # None
                      THEN <<[kind |-> "thread",
                              len |-> 18 + TextLen(encode(mail.thread[1]))]>>
                      ELSE <<>>
            ELSE <<>>
        from == IF "from" \in fields
                THEN <<[kind |-> "from", len |-> 16 + TextLen(encode(h.from))]>>
                ELSE <<>>
        date == IF "date" \in fields /\ mail.date # None
                THEN <<[kind |-> "date", len |-> 16 + mail.date[1]]>>
                ELSE <<>>
        short_headers == from \o date
    IN subject \o <<[kind |-> "short", len |-> JoinLen(short_headers)]>>

\* the platform's limit on the size of a message
Limit == 4096

\* text.len() < 4096 - header_size in usize arithmetic.  When header_size
\* exceeds 4096 the subtraction overflows: a build with overflow checks
\* panics, a build without them wraps modulo 2^w (w >= 32), and then
\* len < 2^w - (header_size - 4096), which is len + (header_size - 4096) < 2^32
\* for a 32-bit usize.
BodyFits(len, header_size) ==
    IF header_size <= Limit
    THEN IF len < Limit - header_size THEN "yes" ELSE "no"
    ELSE IF overflowChecks
         THEN "panic"
         ELSE IF (len + (header_size - Limit)) \div 65536 < 65536
              THEN "yes" ELSE "no"

\* mail.rs 172-205 and 227: header_size, the choice of the body and the
\* lines of the message
Compose(h, mail) ==
    LET reply == HeaderLines(h, mail)
        header_size == JoinLen(reply) + 1
        text_parts == Len(mail.texts)
        fits == IF text_parts > 0
                THEN BodyFits(PartLen(mail.texts[1]), header_size)
                ELSE "no"
        text_num == IF fits = "yes" THEN 1 ELSE 0
        body == IF fits = "yes"
                THEN [i \in 1..Len(mail.texts[1].lines) |->
                        [kind |-> "body", len |-> mail.texts[1].lines[i]]]
                ELSE <<>>
        fence == <<[kind |-> "fence", len |-> 3]>>
    IN [panic |-> fits = "panic",
        header_size |-> header_size,
        text_num |-> text_num,
        msg |-> [pre |-> FALSE, diag |-> "",
                 lines |-> reply \o fence \o body \o fence,
                 markup |-> IF fits = "yes" THEN mail.texts[1].markup ELSE <<>>]]

\* mail.rs 196-197: mail.body_text(0).context(..)?
ExtractError(mail) ==
    IF Len(mail.texts) > 0 /\ ~mail.texts[1].found
    THEN "Failed to extract text from message"
    ELSE ""

\* mail.rs 216-225: mail.text_part(n).context(..)? and
\* mail.attachment(n).context(..)? for the parts collected
CollectError(mail, text_num) ==
    IF \E i \in (text_num + 1)..Len(mail.texts) : ~mail.texts[i].found
    THEN "Failed to get text part from message."
    ELSE IF \E i \in DOMAIN mail.atts : ~mail.atts[i].found
         THEN "Failed to get file part from message."
         ELSE ""

\* files_to_send that collects every text part, the body included
files_to_send_FromZero(mail, text_num) ==
    mail.texts \o mail.atts

\* mail.rs 207-225: the remaining text parts, then the attachments
files_to_send(mail, text_num) ==
    SubSeq(mail.texts, text_num + 1, Len(mail.texts)) \o mail.atts

(***************************************************************************)
(* relay_mail                                                              *)
(*                                                                         *)
(* relay_mail is a straight line of steps with early returns: every        *)
(* request is awaited and followed by ?, so the first failed request ends  *)
(* the function.  Script lists the steps in program order; Run executes    *)
(* them against the failures of the platform.                              *)
(***************************************************************************)

NoRequest == [kind |-> "none", to |-> 0, text |-> None, items |-> <<>>, ok |-> FALSE]

\* steps: entering a stage, a request (awaited, with ?), bail!, a panic
Enter(stage) == [act |-> "pass", stage |-> stage, req |-> NoRequest, err |-> ""]
Request(stage, req) == [act |-> "request", stage |-> stage, req |-> req, err |-> ""]
\* a bail! that does not return from relay_mail
Bail_Ignored(stage, why) == [act |-> "pass", stage |-> stage, req |-> NoRequest, err |-> ""]
Bail(stage, why) == [act |-> "bail", stage |-> stage, req |-> NoRequest, err |-> why]
Unwind(stage) == [act |-> "panic", stage |-> stage, req |-> NoRequest, err |-> "panic"]

\* mail.rs 144-146: the get_id calls of the loop over headers.to, in order;
\* the first panic ends the loop
Calls(to) ==
    LET panics == {i \in DOMAIN to : get_id(to[i]).kind = "panic"}
        n == IF panics = {} THEN Len(to)
             ELSE CHOOSE i \in panics : \A k \in panics : i <= k
    IN [i \in 1..n |-> get_id(to[i])]

\* mail.rs 140-150: the set of channels of the envelope addresses.  A panic
\* of get_id unwinds through relay_mail.  rcpt is the set once the steps
\* have run.
ResolveAll(h) ==
    IF h.to = <<>> /\ ~relay
    THEN [ids |-> <<>>, rcpt |-> {},
          steps |-> <<Bail("resolving",
                           "Relaying is disabled, and there's no destination address")>>]
    ELSE IF \E i \in DOMAIN Calls(h.to) : Calls(h.to)[i].kind = "panic"
         THEN [ids |-> Calls(h.to), rcpt |-> {}, steps |-> <<Unwind("resolving")>>]
         ELSE IF h.to = <<>>
              THEN [ids |-> <<>>, rcpt |-> {tg.default},
                    steps |-> <<Request("resolving",
                                        debug("No recipient or envelope address."))>>]
              ELSE [ids |-> Calls(h.to),
                    rcpt |-> {Calls(h.to)[i].val : i \in DOMAIN h.to},
                    steps |-> <<>>]

\* mail.rs 234-253: the file name of a chunk is the name attribute of its
\* last well-formed Content-Type header that has one, else the placeholder
FileName(chunk) ==
    LET named == {j \in DOMAIN chunk.ctypes :
                    chunk.ctypes[j].wf /\ chunk.ctypes[j].name # None}
    IN IF named = {} THEN "Attachment.txt"
       ELSE chunk.ctypes[CHOOSE j \in named : \A k \in named : k <= j].name[1]

\* mail.rs 230-258: one Attachment per chunk of files_to_send
BuildFiles(chunks) ==
    [i \in DOMAIN chunks |-> [data |-> chunks[i].id, name |-> FileName(chunks[i])]]

\* mail.rs 243-245: a diagnostic for every Content-Type header of the chunks
\* that is not a content type, in the order of the scan (chunks from index i)
RECURSIVE BadTypeReports(_, _)
BadTypeReports(chunks, i) ==
    IF i > Len(chunks) THEN <<>>
    ELSE [j \in 1..Cardinality({k \in DOMAIN chunks[i].ctypes :
                                   ~chunks[i].ctypes[k].wf}) |->
             Request("dispatching", debug("Attachment has bad ContentType header."))]
         \o BadTypeReports(chunks, i + 1)

\* mail.rs 229-262: the body of the loop for one chat
DispatchTo(chat, files, msg) ==
    IF files # <<>>
    THEN BadTypeReports(files, 1)
         \o <<IF sendgroup(chat, BuildFiles(files), msg).kind = "err"
              THEN Bail("dispatching", sendgroup(chat, BuildFiles(files), msg).val)
              ELSE Request("dispatching", sendgroup(chat, BuildFiles(files), msg).val)>>
    ELSE <<Request("dispatching", send(chat, msg))>>

\* mail.rs 228-263: the loop over the recipient set, in its iteration order
RECURSIVE Dispatch(_, _, _, _)
Dispatch(order, i, files, msg) ==
    IF i > Len(order) THEN <<>>
    ELSE DispatchTo(order[i], files, msg) \o Dispatch(order, i + 1, files, msg)

NoMsg == [pre |-> FALSE, diag |-> "", lines |-> <<>>, markup |-> <<>>]

\* the steps of relay_mail in program order, for the stored headers, the
\* parser's answer and the iteration order of the recipient HashSet
Script(hdrs, parsed, order) ==
    IF hdrs = None
    THEN <<Bail("received", "Required headers were not found.")>>
    ELSE IF parsed = None
    THEN <<Bail("received", "Failed to parse mail.")>>
    ELSE <<Enter("resolving")>>
         \o ResolveAll(hdrs[1]).steps
         \o <<Enter("composing")>>
         \o (IF parsed[1].html_parts # Len(parsed[1].texts)
             THEN <<Request("composing", debug("Hm, we have HTML parts and text parts."))>>
             ELSE <<>>)
         \o (IF ExtractError(parsed[1]) # ""
             THEN <<Bail("composing", ExtractError(parsed[1]))>>
             ELSE IF Compose(hdrs[1], parsed[1]).panic
             THEN <<Unwind("composing")>>
             ELSE IF CollectError(parsed[1],
                                  Compose(hdrs[1], parsed[1]).text_num) # ""
             THEN <<Bail("composing",
                         CollectError(parsed[1],
                                      Compose(hdrs[1], parsed[1]).text_num))>>
             ELSE <<Enter("dispatching")>>)
         \o Dispatch(order, 1,
                     files_to_send(parsed[1], Compose(hdrs[1], parsed[1]).text_num),
                     Compose(hdrs[1], parsed[1]).msg)

\* the run of a script: request number k fails when k is in fails; the
\* script ends at its first failed request, bail! or panic
Run(script, fails) ==
    LET IsRequest(j) == script[j].act = "request"
        Ordinal(j) == Cardinality({i \in 1..j : IsRequest(i)})
        Failed(j) == IsRequest(j) /\ Ordinal(j) \in fails
        stops == {j \in DOMAIN script :
                    script[j].act \in {"bail", "panic"} \/ Failed(j)}
        end == IF stops = {} THEN Len(script)
               ELSE CHOOSE j \in stops : \A k \in stops : j <= k
        issued == {j \in 1..end : IsRequest(j)}
    IN [status |-> IF stops = {} THEN "ok"
                   ELSE IF script[end].act = "panic" THEN "panic" ELSE "err",
        err |-> IF stops = {} THEN ""
                ELSE IF Failed(end) THEN "send failed" ELSE script[end].err,
        stage |-> script[end].stage,
        sent |-> [k \in 1..Cardinality(issued) |->
                    LET j == CHOOSE j \in issued : Ordinal(j) = k
                    IN [script[j].req EXCEPT !.ok = ~Failed(j)]]]

\* what relay_mail computed, as far as it came
Computed(hdrs, parsed, order, run) ==
    LET resolved_ == run.stage # "received"
        \* the set is complete once the resolving steps have all run
        resolving == run.stage = "resolving"
        composed == run.stage = "dispatching"
        \* mail.rs 195-202 have run when the collection of the parts failed
        chosen == composed
                  \/ (run.stage = "composing"
                      /\ run.err \in {"Failed to get text part from message.",
                                      "Failed to get file part from message."})
    IN [to |-> IF hdrs = None THEN <<>> ELSE hdrs[1].to,
        ids |-> IF resolved_ THEN ResolveAll(hdrs[1]).ids ELSE <<>>,
        rcpt |-> IF resolved_ /\ ~resolving THEN ResolveAll(hdrs[1]).rcpt ELSE {},
        header_size |-> IF resolved_ /\ ~resolving
                        THEN Compose(hdrs[1], parsed[1]).header_size ELSE 0,
        text_parts |-> IF resolved_ /\ ~resolving THEN Len(parsed[1].texts) ELSE 0,
        html_parts |-> IF resolved_ /\ ~resolving THEN parsed[1].html_parts ELSE 0,
        texts |-> IF resolved_ /\ ~resolving THEN parsed[1].texts ELSE <<>>,
        atts |-> IF resolved_ /\ ~resolving THEN parsed[1].atts ELSE <<>>,
        \* mail.rs 196-198: text.len() of the first text part, once taken
        body_len |-> IF (chosen \/ (run.stage = "composing"
                                    /\ run.status = "panic"))
                        /\ parsed[1].texts # <<>>
                     THEN PartLen(parsed[1].texts[1]) ELSE 0,
        text_num |-> IF chosen THEN Compose(hdrs[1], parsed[1]).text_num ELSE 0,
        msg |-> IF composed THEN Compose(hdrs[1], parsed[1]).msg ELSE NoMsg,
        files |-> IF composed
                  THEN files_to_send(parsed[1], Compose(hdrs[1], parsed[1]).text_num)
                  ELSE <<>>,
        order |-> IF composed THEN order ELSE <<>>]

\* MailServer::relay_mail for the stored headers, the parser's answer, the
\* iteration order of the recipient HashSet and the platform's failures:
\* its result (status, err), the requests it issued, the last stage it
\* entered and what it computed
relay_mail(hdrs, parsed, order, fails) ==
    CHOOSE r \in {run @@ Computed(hdrs, parsed, order, run) :
                    run \in {Run(script, fails) :
                               script \in {Script(hdrs, parsed, order)}}} : TRUE

\* the recipient set the dispatch loop of relay_mail iterates over
LoopSet(hdrs, parsed) ==
    IF hdrs = None \/ parsed = None THEN {} ELSE ResolveAll(hdrs[1]).rcpt

\* the orders of a list that keeps a channel twice
Orders_WithRepeat(S) ==
    IF S = {} THEN {<<>>} ELSE [1..(Cardinality(S) + 1) -> S]

\* the iteration orders of a HashSet
Orders(S) ==
    {f \in [1..Cardinality(S) -> S] :
        \A i, j \in 1..Cardinality(S) : i # j => f[i] # f[j]}

(***************************************************************************)
(* Configuration and inputs                                                *)
(***************************************************************************)

MaxTo == 2       \* envelope recipients of one message
MaxData == 2     \* chunks of one message

\* the configured domain "x.y"
Domains == {<<"x", ".", "y">>}

\* recipients: "ab" and "abc"; default
Transport ==
    [recipients |-> (<<"a", "b">> :> 111) @@ (<<"a", "b", "c">> :> 222),
     default |-> 100]

FieldChoices == {{"subject", "from", "date"}, {}}

Addresses ==
    { <<"a", "b", "@", "x", ".", "y">>,        \* mapped, two-character local part
      <<"a", "b", "c", "@", "x", ".", "y">>,   \* mapped, longer local part
      <<"z", "z", "@", "x", ".", "y">>,        \* configured domain, unmapped
      <<"a", "b", "@", "z", ".", "y">>,        \* other domain
      <<"a", "b", "c">> }                      \* a key of the table, no domain

RECURSIVE SeqsUpTo(_, _)
SeqsUpTo(S, n) ==
    IF n = 0 THEN {<<>>}
    ELSE LET shorter == SeqsUpTo(S, n - 1)
         IN shorter \cup {Append(q, x) : q \in shorter, x \in S}

\* envelope-to lists: none, each address alone, and lists that repeat a
\* channel, mix channels, or hold an address the regex matches
EnvelopeLists ==
    {<<>>}
    \cup {<<a>> : a \in Addresses}
    \cup { << <<"a", "b", "c">>, <<"a", "b", "@", "z", ".", "y">> >>,
           << <<"a", "b", "@", "z", ".", "y">>, <<"a", "b", "c", "@", "x", ".", "y">> >>,
           << <<"a", "b", "c">>, <<"a", "b", "c">> >>,
           << <<"a", "b", "c">>, <<"a", "b", "@", "x", ".", "y">> >>,
           << <<"a", "b", "c">>, <<"a", "b", "@", "z", ".", "y">>, <<"a", "b", "c">> >>,
           << <<"a", "b", "@", "z", ".", "y">>, <<"a", "b", "c">>,
              <<"z", "z", "@", "x", ".", "y">> >>,
           << <<"a", "b", "c">>, <<"a", "b", "@", "z", ".", "y">>,
              <<"a", "b", "c", "@", "x", ".", "y">>, <<"a", "b", "c">> >> }

ToLists == {to \in EnvelopeLists : Len(to) <= MaxTo}

\* the addresses of RCPT commands: also domains that differ from the
\* configured one in case, or merely begin or end with it
RcptAddresses ==
    Addresses \cup
    { <<"a", "b", "@", "X", ".", "Y">>,
      <<"a", "b", "@", "x", ".", "y", "z">>,
      <<"a", "b", "@", "z", "x", ".", "y">> }

\* envelope sender "me@x.y"
Senders == {[plain |-> 5, special |-> 1]}

Chunks == {1}

\* Content-Type header values
Named(n) == [wf |-> TRUE, name |-> Some(n)]
Unnamed == [wf |-> TRUE, name |-> None]
BadType == [wf |-> FALSE, name |-> None]

\* a part: its contents (id), the lengths of its lines, whether the last line
\* is terminated, its Content-Type headers, the tags its text holds, and
\* whether the accessor of the parsed message returns it (it does for every
\* index below the count the message reports)
Part(id, lines, nl, ctypes) ==
    [id |-> id, lines |-> lines, trailingNL |-> nl, ctypes |-> ctypes,
     markup |-> <<>>, found |-> TRUE]

Text(n, k) == [plain |-> n, special |-> k]

Message(subject, thread, html, texts, atts) ==
    [subject |-> subject, thread |-> thread, date |-> Some(20),
     html_parts |-> html, texts |-> texts, atts |-> atts]

ShortBody == Part("t0", <<5, 3>>, TRUE, <<Unnamed>>)
\* the one-line body "</pre>"
MarkerBody == [Part("t0", <<6>>, FALSE, <<Unnamed>>) EXCEPT !.markup = <<"</pre>">>]
FileA == Part("a0", <<>>, FALSE, <<Named("a.txt")>>)
FileB == Part("a1", <<>>, FALSE, <<Named("b.txt")>>)
Hi == Some(Text(2, 1))

\* the messages the parser may return
Mails ==
    { Message(Hi, None, 1, <<ShortBody>>, <<>>),
      Message(None, Some(Text(2, 0)), 1, <<>>, <<>>),
      Message(Hi, None, 1, <<MarkerBody>>, <<FileA>>),
      Message(Hi, None, 1, <<ShortBody>>, <<FileA, FileB>>),
      Message(None, None, 2, <<ShortBody, Part("t1", <<4>>, FALSE, <<>>)>>,
              <<Part("a0", <<>>, FALSE, <<BadType>>)>>),
      \* first text part one byte below, and at, the size that no longer fits
      Message(Hi, None, 1, <<Part("t0", <<4010>>, FALSE, <<>>)>>, <<>>),
      Message(Hi, None, 1, <<Part("t0", <<4011>>, FALSE, <<>>)>>, <<>>),
      Message(Hi, None, 1, <<Part("t0", <<4094>>, FALSE, <<>>)>>, <<>>),
      Message(Hi, None, 1, <<Part("t0", <<4095>>, FALSE, <<>>)>>, <<>>),
      \* header of exactly 4096 bytes, and a longer one
      Message(Some(Text(4015, 0)), None, 1,
              <<Part("t0", <<>>, FALSE, <<>>)>>, <<>>),
      Message(Some(Text(4100, 0)), None, 1, <<ShortBody>>, <<>>),
      \* eleven attachments
      Message(Hi, None, 0, <<>>,
              [i \in 1..11 |-> Part(<<"a", i>>, <<>>, FALSE, <<>>)]) }

\* MessageParser::parse: None for an empty input, else the parser's answer
ParseResults(bytes) ==
    IF bytes = <<>> THEN {None} ELSE {None} \cup {Some(m) : m \in Mails}

(***************************************************************************)
(* The session: mailin_embedded::Handler for MailServer                    *)
(***************************************************************************)

\* no data_end in progress
Idle == [job |-> None, pc |-> 0, pending |-> None]

\* MailServer::new: nothing buffered, no headers
Init ==
    /\ data = <<>>
    /\ headers = None
    /\ relay \in BOOLEAN
    /\ tg = Transport
    /\ fields \in FieldChoices
    /\ address = NewAddressRegex(Domains)
    /\ overflowChecks \in BOOLEAN
    /\ phase = "idle"
    /\ response = "none"
    /\ resolved = None
    /\ sent = <<>>
    /\ last = None
    /\ call = Idle
    /\ vtext = <<>>
    /\ vres = None
    /\ servers = <<>>
    /\ given = <<>>

config == <<relay, tg, fields, address, overflowChecks>>

\* Handler::rcpt
rcpt(to) ==
    /\ phase = "idle"
    /\ IF relay
       THEN /\ response' = "OK"
            /\ resolved' = None
            /\ phase' = phase
       ELSE LET r == get_id(to) IN
            /\ resolved' = Some([to |-> to, res |-> r,
                                  caps |-> captures(address, to)])
            /\ response' = IF r.kind = "ok" THEN "OK"
                           ELSE IF r.kind = "panic" THEN "none"
                           ELSE IF relay THEN "OK" ELSE "NO_MAILBOX"
            /\ phase' = IF r.kind = "panic" THEN "dead" ELSE phase
    /\ sent' = <<>>
    /\ last' = None
    /\ UNCHANGED <<data, headers, config, call, vtext, vres, servers, given>>

\* Handler::auth_login: login is refused
auth_login ==
    /\ phase = "idle"
    /\ response' = "INVALID_CREDENTIALS"
    /\ resolved' = None
    /\ sent' = <<>>
    /\ last' = None
    /\ UNCHANGED <<data, headers, config, phase, call, vtext, vres, servers,
                   given>>

\* Handler::auth_plain: login is refused
auth_plain ==
    /\ phase = "idle"
    /\ response' = "INVALID_CREDENTIALS"
    /\ resolved' = None
    /\ sent' = <<>>
    /\ last' = None
    /\ UNCHANGED <<data, headers, config, phase, call, vtext, vres, servers,
                   given>>

\* Handler::data_start
data_start(from, to) ==
    /\ phase = "idle"
    /\ headers' = Some([from |-> from, to |-> to])
    /\ response' = "OK"
    /\ phase' = "data"
    /\ resolved' = None
    /\ sent' = <<>>
    /\ last' = None
    /\ UNCHANGED <<data, config, call, vtext, vres, servers, given>>

\* Handler::data
data_chunk(buf) ==
    /\ phase = "data"
    /\ Len(data) < MaxData
    /\ data' = data \o <<buf>>
    /\ UNCHANGED <<headers, config, phase, response, resolved, sent, last,
                   call, vtext, vres, servers, given>>

\* the tags in the text of an error the platform returns
PlatformErrors == {<<>>, <<"</pre>">>}

\* the tag-like texts in the frames of a stack backtrace (<T>, <F>,
\* <smtp2tg::mail::MailServer as mailin_embedded::Handler>, <unknown>, ..).
\* Which of them a backtrace holds, and how many, depends on the build and on
\* the place the error was made; they are kept as one lexeme that stands for
\* all of them.  None of them is a closing tag.
FrameTags == <<"<frame>">>

\* the tags the stack backtrace adds to the Debug text of the error: none with
\* backtraces off, those of its frames with backtraces on (RUST_BACKTRACE,
\* RUST_LIB_BACKTRACE)
Backtraces == {<<>>, FrameTags}

\* the tags in the Debug text of the error relay_mail returned: those of the
\* platform's error text for a failed request, and those of the backtrace
ErrorTexts(r) ==
    {p \o b : p \in (IF r.err = "send failed" THEN PlatformErrors ELSE {<<>>}),
              b \in Backtraces}

\* mail.rs 317-332: the answer of data_end for the result r of relay_mail,
\* and the requests made, the report of a failure included (its own failure
\* is only logged)
Conclude(r, fails, text) ==
    IF r.status = "panic"
    THEN [phase |-> "dead", response |-> "none", sent |-> r.sent]
    ELSE [phase |-> "idle",
          response |-> IF r.status = "err" THEN "INTERNAL_ERROR" ELSE "OK",
          sent |-> IF r.status = "err"
                   THEN Append(r.sent,
                          [debug_text("Sending emails failed", text)
                             EXCEPT !.ok = (Len(r.sent) + 1) \notin fails])
                   ELSE r.sent]

\* the next step after step k of the script at which relay_mail awaits an
\* answer or returns early; 0 when it runs to its end
Await(script, k) ==
    LET stops == {j \in DOMAIN script :
                    j > k /\ script[j].act \in {"request", "bail", "panic"}}
    IN IF stops = {} THEN 0 ELSE CHOOSE j \in stops : \A i \in stops : j <= i

\* mail.rs 320-323: relay_mail returned an error; the report is requested
Reporting(pos, text) ==
    [pos EXCEPT !.phase = "reporting", !.pc = 0,
                !.pending = Some(debug_text("Sending emails failed", text))]

\* relay_mail runs on after step k of its script: to its next request, to an
\* early return (then data_end requests the report), to a panic, or to its
\* end (then data_end returns OK)
Resume(pos, script, k, text) ==
    LET j == Await(script, k) IN
    IF j = 0
    THEN [pos EXCEPT !.phase = "idle", !.response = "OK", !.pc = 0,
                     !.pending = None]
    ELSE IF script[j].act = "request"
    THEN [pos EXCEPT !.phase = "relaying", !.pc = j,
                     !.pending = Some(script[j].req)]
    ELSE IF script[j].act = "panic"
    THEN [pos EXCEPT !.phase = "dead", !.response = "none", !.pc = 0,
                     !.pending = None]
    ELSE Reporting(pos, text)

\* the script of the relay_mail call in progress
JobScript(job) == Script(job.hdrs, job.parsed, job.order)

\* the requests of relay_mail among the answered ones that failed
Failures(requests) == {i \in DOMAIN requests : ~requests[i].ok}

\* the session after a step of data_end: its position; what relay_mail
\* computed, once data_end is through (requests are those of relay_mail); a
\* data_end that returns clears the buffer and the headers (mail.rs 330-331)
Settle(pos, requests) ==
    /\ phase' = pos.phase
    /\ response' = pos.response
    /\ sent' = pos.sent
    /\ call' = IF pos.phase \in {"idle", "dead"}
               THEN Idle
               ELSE [job |-> pos.job, pc |-> pos.pc, pending |-> pos.pending]
    /\ last' = IF pos.phase \in {"idle", "dead"}
               THEN Some(relay_mail(pos.job[1].hdrs, pos.job[1].parsed,
                                    pos.job[1].order, Failures(requests)))
               ELSE None
    /\ IF pos.phase = "idle"
       THEN data' = <<>> /\ headers' = None
       ELSE UNCHANGED <<data, headers>>

\* Handler::data_end is called: relay_mail parses the buffer and runs to its
\* first request, where block_on waits for the platform, or returns.  A panic
\* of relay_mail unwinds through data_end.
data_end ==
    /\ phase = "data"
    /\ \E parsed \in ParseResults(data) :
       \E order \in Orders(LoopSet(headers, parsed)) :
       \E job \in {[hdrs |-> headers, parsed |-> parsed, order |-> order]} :
       \E pos \in {Resume([phase |-> phase, response |-> response,
                           sent |-> <<>>, job |-> Some(job), pc |-> 0,
                           pending |-> None],
                          JobScript(job), 0, text) :
                      text \in ErrorTexts([err |-> "bail"])} :
          Settle(pos, <<>>)
    /\ resolved' = None
    /\ UNCHANGED <<config, vtext, vres, servers, given>>

\* the platform answers the request data_end awaits: relay_mail runs on to
\* its next request or its end, or returns the error of the failed request
\* and data_end requests the report (mail.rs 320-323); the answer to the
\* report, whatever it is, ends data_end (mail.rs 323-332).  The session's
\* thread is held throughout: no other callback of the session runs.
answered(ok) ==
    /\ phase \in {"relaying", "reporting"}
    /\ \E got \in {[phase |-> phase, response |-> response,
                    sent |-> Append(sent, [call.pending[1] EXCEPT !.ok = ok]),
                    job |-> call.job, pc |-> call.pc, pending |-> None]} :
          IF phase = "reporting"
          THEN Settle([got EXCEPT !.phase = "idle",
                                  !.response = "INTERNAL_ERROR"], sent)
          ELSE \E pos \in (IF ok
                           THEN {Resume(got, JobScript(got.job[1]), got.pc, text) :
                                   text \in ErrorTexts([err |-> "bail"])}
                           ELSE {Reporting(got, text) :
                                   text \in ErrorTexts([err |-> "send failed"])}) :
                  Settle(pos, got.sent)
    /\ UNCHANGED <<config, resolved, vtext, vres, servers, given>>

Next ==
    \/ \E to \in RcptAddresses : rcpt(to)
    \/ \E from \in Senders, to \in ToLists : data_start(from, to)
    \/ \E buf \in Chunks : data_chunk(buf)
    \/ data_end
    \/ \E ok \in BOOLEAN : answered(ok)
    \/ auth_login
    \/ auth_plain

Spec == Init /\ [][Next]_vars

(***************************************************************************)
(* Concurrent sessions                                                     *)
(*                                                                         *)
(* The server clones the MailServer for every connection: data and headers *)
(* are cloned, the TelegramTransport behind the Arc is shared and only     *)
(* read.  The callbacks of the sessions interleave, and data_end waits in   *)
(* block_on for the platform's answer to each request: the steps of other  *)
(* sessions fall between a request and its answer.                         *)
(***************************************************************************)

MaxSessions == 2

Sessions == 1..MaxSessions

\* #[derive(Clone)] of MailServer, as cloned from the server's handler, and
\* the session's position: its phase ("relaying" and "reporting" while
\* data_end awaits an answer), its latest answer, the requests answered, what
\* relay_mail read (last, job), the step of the script and the request that
\* await the answer
Clone ==
    [data |-> <<>>, headers |-> None, phase |-> "idle", response |-> "none",
     sent |-> <<>>, last |-> None, job |-> None, pc |-> 0, pending |-> None]

\* all sessions act on one MailServer
Slot_Shared(s) == 1

\* the MailServer the callbacks of session s act on: its own clone
Slot(s) == s

\* data_end that leaves data and headers as they are
Cleared_Kept(srv) == srv

\* mail.rs 330-331: self.data = vec![]; self.headers = None
Cleared(srv) == [srv EXCEPT !.data = <<>>, !.headers = None]

\* the envelope of the messages of session s
Envelopes(s) ==
    CASE s % 3 = 1 -> {[from |-> [plain |-> 5, special |-> 1],
                        to |-> << <<"a", "b", "c">> >>],
                       [from |-> [plain |-> 5, special |-> 1],
                        to |-> << <<"a", "b", "@", "x", ".", "y">> >>]}
      [] s % 3 = 2 -> {[from |-> [plain |-> 6, special |-> 1],
                        to |-> << <<"a", "b", "@", "z", ".", "y">> >>]}
      [] OTHER -> {[from |-> [plain |-> 7, special |-> 1], to |-> <<>>]}

\* the k-th chunk session s sends
Chunk(s, k) == <<s, k>>

SessionMails == {Message(Hi, None, 1, <<ShortBody>>, <<>>)}

\* MessageParser::parse for the sessions
SessionParse(bytes) ==
    IF bytes = <<>> THEN {None} ELSE {None} \cup {Some(m) : m \in SessionMails}

InitSessions ==
    /\ data = <<>>
    /\ headers = None
    /\ relay \in BOOLEAN
    /\ tg = Transport
    /\ fields = {}
    /\ address = NewAddressRegex(Domains)
    /\ overflowChecks = TRUE
    /\ phase = "idle"
    /\ response = "none"
    /\ resolved = None
    /\ sent = <<>>
    /\ last = None
    /\ call = Idle
    /\ vtext = <<>>
    /\ vres = None
    /\ servers = [s \in Sessions |-> Clone]
    /\ given = [s \in Sessions |-> [env |-> None, chunks |-> <<>>]]

single ==
    <<data, headers, phase, response, resolved, sent, last, call, vtext, vres>>

\* Handler::rcpt of session s: OK under the relay policy, else the outcome of
\* get_id, whose panic ends the session
session_rcpt(s, to) ==
    /\ servers[s].phase = "idle"
    /\ \E pos \in {IF relay
                   THEN [phase |-> "idle", response |-> "OK"]
                   ELSE IF get_id(to).kind = "panic"
                   THEN [phase |-> "dead", response |-> "none"]
                   ELSE IF get_id(to).kind = "ok" \/ relay
                   THEN [phase |-> "idle", response |-> "OK"]
                   ELSE [phase |-> "idle", response |-> "NO_MAILBOX"]} :
          servers' = [servers EXCEPT
                        ![s].phase = pos.phase, ![s].response = pos.response,
                        ![s].sent = <<>>, ![s].last = None, ![s].job = None]
    /\ UNCHANGED <<given, config, single>>

\* Handler::auth_login of session s
session_auth_login(s) ==
    /\ servers[s].phase = "idle"
    /\ servers' = [servers EXCEPT ![s].response = "INVALID_CREDENTIALS",
                                  ![s].sent = <<>>, ![s].last = None,
                                  ![s].job = None]
    /\ UNCHANGED <<given, config, single>>

\* Handler::auth_plain of session s
session_auth_plain(s) ==
    /\ servers[s].phase = "idle"
    /\ servers' = [servers EXCEPT ![s].response = "INVALID_CREDENTIALS",
                                  ![s].sent = <<>>, ![s].last = None,
                                  ![s].job = None]
    /\ UNCHANGED <<given, config, single>>

\* Handler::data_start of session s
session_data_start(s, env) ==
    /\ servers[s].phase = "idle"
    /\ servers' = [[servers EXCEPT ![Slot(s)].headers = Some(env)]
                      EXCEPT ![s].phase = "data", ![s].response = "OK",
                             ![s].sent = <<>>, ![s].last = None,
                             ![s].job = None]
    /\ given' = [given EXCEPT ![s] = [env |-> Some(env), chunks |-> <<>>]]
    /\ UNCHANGED <<config, single>>

\* Handler::data of session s
session_data(s) ==
    /\ servers[s].phase = "data"
    /\ Len(given[s].chunks) < MaxData
    /\ \E buf \in {Chunk(s, Len(given[s].chunks) + 1)} :
          /\ servers' = [servers EXCEPT ![Slot(s)].data = @ \o <<buf>>]
          /\ given' = [given EXCEPT ![s].chunks = @ \o <<buf>>]
    /\ UNCHANGED <<config, single>>

\* the answers data_end can give for an envelope and buffered chunks when the
\* platform fails the requests numbered in fails
Conclusions(hdrs, bytes, fails) ==
    UNION {{Conclude(r, fails, text) : text \in ErrorTexts(r)} :
           r \in UNION {{relay_mail(hdrs, parsed, order, fails) :
                           order \in Orders(LoopSet(hdrs, parsed))} :
                        parsed \in SessionParse(bytes)}}

\* the position of session s becomes pos; a data_end that returns clears the
\* MailServer of the session
Put(s, pos) ==
    [(IF pos.phase = "idle"
      THEN [servers EXCEPT ![Slot(s)] = Cleared(@)]
      ELSE servers)
        EXCEPT ![s].phase = pos.phase, ![s].response = pos.response,
               ![s].sent = pos.sent, ![s].last = pos.last, ![s].job = pos.job,
               ![s].pc = pos.pc, ![s].pending = pos.pending]

\* Handler::data_end of session s is called: relay_mail parses the buffer and
\* runs to its first request, or returns
session_data_end(s) ==
    /\ servers[s].phase = "data"
    /\ \E srv \in {servers[Slot(s)]} :
       \E parsed \in SessionParse(srv.data) :
       \E order \in Orders(LoopSet(srv.headers, parsed)) :
       \E job \in {[hdrs |-> srv.headers, parsed |-> parsed, order |-> order]} :
       \E pos \in {Resume([servers[s] EXCEPT
                              !.job = Some(job),
                              !.last = Some([hdrs |-> srv.headers,
                                             bytes |-> srv.data])],
                          JobScript(job), 0, text) :
                      text \in ErrorTexts([err |-> "bail"])} :
          servers' = Put(s, pos)
    /\ UNCHANGED <<given, config, single>>

\* the platform answers the request session s awaits: relay_mail runs on, or
\* returns the error; the answer to the report ends data_end
session_answer(s, ok) ==
    /\ servers[s].phase \in {"relaying", "reporting"}
    /\ \E got \in {[servers[s] EXCEPT
                      !.sent = Append(@, [servers[s].pending[1] EXCEPT !.ok = ok]),
                      !.pending = None]} :
       \E pos \in (IF got.phase = "reporting"
                   THEN {[got EXCEPT !.phase = "idle",
                                      !.response = "INTERNAL_ERROR"]}
                   ELSE IF ok
                   THEN {Resume(got, JobScript(got.job[1]), got.pc, text) :
                           text \in ErrorTexts([err |-> "bail"])}
                   ELSE {Reporting(got, text) :
                           text \in ErrorTexts([err |-> "send failed"])}) :
          servers' = Put(s, pos)
    /\ UNCHANGED <<given, config, single>>

NextSessions ==
    \/ \E s \in Sessions : \E env \in Envelopes(s) : session_data_start(s, env)
    \/ \E s \in Sessions : session_data(s)
    \/ \E s \in Sessions : session_data_end(s)
    \/ \E s \in Sessions, ok \in BOOLEAN : session_answer(s, ok)
    \/ \E s \in Sessions, to \in RcptAddresses : session_rcpt(s, to)
    \/ \E s \in Sessions : session_auth_login(s)
    \/ \E s \in Sessions : session_auth_plain(s)

SpecSessions == InitSessions /\ [][NextSessions]_vars

(***************************************************************************)
(* utils::validate                                                         *)
(*                                                                         *)
(* A text is a sequence of lexemes: a character of plain text, or a start  *)
(* or end tag.                                                             *)
(***************************************************************************)

MaxText == 4     \* lexemes of a validated text

Lexemes == {"x", "<b>", "</b>", "<pre>", "</pre>", "</code>"}

StartTags == {"<b>", "<pre>"}
EndTags == {"</b>", "</pre>", "</code>"}

\* the element a tag names
Element(tag) ==
    CASE tag \in {"<b>", "</b>"} -> "b"
      [] tag \in {"<pre>", "</pre>"} -> "pre"
      [] OTHER -> "code"

\* Html::parse_fragment(text).errors: the parse errors of the tree builder
\* for the lexemes from index i on, open being the stack of open elements.
\* An end tag that does not close the current node is an error (and is
\* dropped); so is an element still open at the end of the text.
RECURSIVE ParseErrors(_, _, _)
ParseErrors(text, i, open) ==
    IF i > Len(text)
    THEN IF open # <<>> THEN <<"Unexpected open tag at end of body">> ELSE <<>>
    ELSE LET tok == text[i] IN
         IF tok \in StartTags
         THEN ParseErrors(text, i + 1, Append(open, Element(tok)))
         ELSE IF tok \in EndTags
         THEN IF open # <<>> /\ open[Len(open)] = Element(tok)
              THEN ParseErrors(text, i + 1, SubSeq(open, 1, Len(open) - 1))
              ELSE <<"Unexpected end tag">> \o ParseErrors(text, i + 1, open)
         ELSE ParseErrors(text, i + 1, open)

parse_fragment(text) == [errors |-> ParseErrors(text, 1, <<>>)]

\* utils::validate: an error when the parser reported any, else the text
validate(text) ==
    LET fragment == parse_fragment(text) IN
    IF fragment.errors # <<>>
    THEN Err(fragment.errors)
    ELSE Ok(text)

Texts == SeqsUpTo(Lexemes, MaxText)

\* the session as constructed, a text to validate
InitValidate ==
    /\ data = <<>>
    /\ headers = None
    /\ relay = TRUE
    /\ tg = Transport
    /\ fields = {}
    /\ address = NewAddressRegex(Domains)
    /\ overflowChecks = TRUE
    /\ phase = "idle"
    /\ response = "none"
    /\ resolved = None
    /\ sent = <<>>
    /\ last = None
    /\ call = Idle
    /\ vtext \in Texts
    /\ vres = None
    /\ servers = <<>>
    /\ given = <<>>

\* the call validate(vtext)
Validate ==
    /\ vres = None
    /\ vres' = Some(validate(vtext))
    /\ UNCHANGED <<data, headers, config, phase, response, resolved, sent,
                   last, call, vtext, servers, given>>

NextValidate == Validate

SpecValidate == InitValidate /\ [][NextValidate]_vars

(***************************************************************************)
(* Vocabulary of the properties                                            *)
(***************************************************************************)

\* the index of the first "@" of an address, 0 when it has none
RECURSIVE AtFrom(_, _)
AtFrom(a, i) ==
    IF i > Len(a) THEN 0 ELSE IF a[i] = "@" THEN i ELSE AtFrom(a, i + 1)

HasDomain(a) == AtFrom(a, 1) > 0
LocalPart(a) == SubSeq(a, 1, AtFrom(a, 1) - 1)
DomainPart(a) == SubSeq(a, AtFrom(a, 1) + 1, Len(a))

\* the address is in a configured domain
InConfiguredDomain(a) == HasDomain(a) /\ DomainPart(a) \in Domains

\* the address is in a configured domain and its local part is a mapping key
Mapped(a) == InConfiguredDomain(a) /\ LocalPart(a) \in DOMAIN tg.recipients

\* the get_id calls of the latest callback: address and outcome
Resolutions ==
    (IF resolved # None
     THEN {[to |-> resolved[1].to, res |-> resolved[1].res]} ELSE {})
    \cup (IF last # None
          THEN {[to |-> last[1].to[i], res |-> last[1].ids[i]] :
                  i \in DOMAIN last[1].ids}
          ELSE {})

\* a request that reports a diagnostic / that delivers the message
IsDiag(req) == req.kind = "text" /\ req.text[1].pre
IsDelivery(req) == ~IsDiag(req)
IsReport(req, msg) == IsDiag(req) /\ req.text[1].diag = msg

\* the positions in sent of the requests that satisfy P
Requests(P(_)) == {i \in DOMAIN sent : P(sent[i])}

DeliveriesTo(chat) ==
    {i \in DOMAIN sent : IsDelivery(sent[i]) /\ sent[i].to = chat}

NoDestination == "No recipient or envelope address."

\* relay_mail got past the parser with the envelope of the latest message
Relayed == last # None /\ last[1].stage # "received"

\* relay_mail entered the loop over the recipient set
Dispatching == last # None /\ last[1].stage = "dispatching"

\* the text a delivery request carries: a message text or a caption
Rendered(req) ==
    IF req.kind = "text" THEN req.text[1]
    ELSE LET captioned == {i \in DOMAIN req.items : req.items[i].caption # None}
         IN req.items[CHOOSE i \in captioned : TRUE].caption[1]

(***************************************************************************)
(* Properties                                                              *)
(***************************************************************************)

\* C1: for every address in a configured domain whose local part is a key of
\* the mapping, get_id returns exactly the channel mapped to the local part
\* (not the default, no failure, no crash), whatever the length of the local
\* part.
C1_MappedResolves ==
    \A r \in Resolutions :
        Mapped(r.to) => r.res = Ok(tg.recipients[LocalPart(r.to)])

\* C2: for every address that is in no configured domain, or is in one with
\* a local part that is no key of the mapping, get_id returns the default
\* channel; get_id never fails, every address yields a channel.  (An address
\* that is itself a key of the table is looked up as it stands and is not in
\* question here.)
C2_UnmappedDefaults ==
    \A r \in Resolutions :
        /\ r.res.kind = "ok"
        /\ (~Mapped(r.to) /\ r.to \notin DOMAIN tg.recipients) =>
              r.res = Ok(tg.default)

\* relay_mail met no trouble other than an empty envelope-to list: every
\* request was answered with success, nothing panicked, and it did not fail
\* after the recipient set was resolved
NoOtherTrouble ==
    /\ \A i \in DOMAIN sent : sent[i].ok
    /\ last[1].status # "panic"
    /\ last[1].status = "err" => last[1].stage = "resolving"

\* C3: for every message with an empty envelope-to list, under either
\* policy, the recipient set is {default}, exactly one no-destination
\* diagnostic is sent, to the default channel, and the message is delivered
\* to the default channel (when nothing else goes wrong); the set reaching
\* the dispatch loop is never empty.
C3_EmptyToFallsBack ==
    /\ Relayed /\ last[1].to = <<>> /\ NoOtherTrouble =>
          /\ last[1].rcpt = {tg.default}
          /\ Cardinality(Requests(LAMBDA q : IsReport(q, NoDestination))) = 1
          /\ \A i \in Requests(LAMBDA q : IsReport(q, NoDestination)) :
                sent[i].to = tg.default
          /\ DeliveriesTo(tg.default) # {}
    /\ Dispatching => last[1].rcpt # {}

\* relay_mail reached the choice of the body (and chose, or panicked)
ChoseBody ==
    /\ last # None
    /\ \/ last[1].stage = "dispatching"
       \/ last[1].stage = "composing" /\ last[1].status = "panic"

\* the body lines of the message text
BodyLines(msg) == {i \in DOMAIN msg.lines : msg.lines[i].kind = "body"}

\* C4: for every header size H (also H >= 4096) and every length Lb of the
\* first text part, the body is in the rendered text iff Lb < 4096 - H over
\* the integers; otherwise the body is omitted and the first text part is
\* left unconsumed.
C4_BodyIffFits ==
    ChoseBody /\ last[1].text_parts > 0 =>
        LET l == last[1]
            fits == l.body_len < Limit - l.header_size
        IN /\ l.status # "panic"
           /\ l.text_num = (IF fits THEN 1 ELSE 0)
           /\ ~fits => BodyLines(l.msg) = {} /\ l.files # <<>>
                       /\ l.files[1].id = "t0"

\* C5: the length of the rendered text handed to any send operation (header
\* lines, separators, block markers and body) never exceeds 4096.
C5_RenderedWithinLimit ==
    \A i \in Requests(LAMBDA q : IsDelivery(q)) :
        JoinLen(Rendered(sent[i]).lines) <= Limit

ClosingMarkers == {"</pre>", "</code>"}

HasClosingMarker(text) == \E i \in DOMAIN text : text[i] \in ClosingMarkers

\* C6: validate succeeds and returns the text unchanged for every text
\* without the closing marker of the preformatted block, and fails for every
\* text that contains it.
C6_ValidateRejectsMarker ==
    vres # None =>
        IF HasClosingMarker(vtext)
        THEN vres[1].kind = "err"
        ELSE vres[1] = Ok(vtext)

\* the entity form of a lexeme: "<" and ">" replaced by "&lt;" and "&gt;"
EscapedLexeme(tok) ==
    CASE tok = "<b>" -> "&lt;b&gt;"
      [] tok = "</b>" -> "&lt;/b&gt;"
      [] tok = "<pre>" -> "&lt;pre&gt;"
      [] tok = "</pre>" -> "&lt;/pre&gt;"
      [] tok = "</code>" -> "&lt;/code&gt;"
      [] OTHER -> tok

Escaped(text) == [i \in DOMAIN text |-> EscapedLexeme(text[i])]

\* every element of the text is closed, in order
WellFormed(text) == ParseErrors(text, 1, <<>>) = <<>>

\* C7: for every well-formed text validate succeeds and its result is the
\* text with "<" and ">" replaced by "&lt;" and "&gt;", so that the result
\* holds no raw tag.
C7_ValidateEscapes ==
    vres # None /\ WellFormed(vtext) => vres[1] = Ok(Escaped(vtext))

\* the request carries the attachments of files, in order
CarriesFiles(req, files) ==
    /\ Len(req.items) = Len(files)
    /\ \A i \in DOMAIN files : req.items[i].file.data = files[i].id

\* C8: for every channel and every attachment list of n > 1 items the
\* dispatcher issues exactly one document-group request with all n
\* attachments in collection order; the composed text is the caption of the
\* last item and of no other.  (Stated for the group sizes that
\* MediaGroup::new accepts.)
C8_GroupCaptionLast ==
    Dispatching /\ Len(last[1].files) > 1
                /\ Len(last[1].files) <= MaxGroupItems =>
        \A chat \in last[1].rcpt :
            /\ Cardinality(DeliveriesTo(chat)) = 1
            /\ \A i \in DeliveriesTo(chat) :
                  /\ sent[i].kind = "group"
                  /\ CarriesFiles(sent[i], last[1].files)
                  /\ \A j \in DOMAIN sent[i].items :
                        sent[i].items[j].caption =
                            IF j = Len(sent[i].items)
                            THEN Some(last[1].msg) ELSE None

\* C9: for every channel of the recipient set: with no attachment exactly one
\* text message with the composed text and no document request; with one
\* attachment exactly one single-document request with the composed text as
\* caption and no text message or group request.
C9_TextOrSingleDocument ==
    Dispatching /\ Len(last[1].files) <= 1 =>
        \A chat \in last[1].rcpt :
            /\ Cardinality(DeliveriesTo(chat)) = 1
            /\ \A i \in DeliveriesTo(chat) :
                  IF last[1].files = <<>>
                  THEN sent[i].kind = "text" /\ sent[i].text = Some(last[1].msg)
                  ELSE /\ sent[i].kind = "document"
                       /\ CarriesFiles(sent[i], last[1].files)
                       /\ sent[i].items[1].caption = Some(last[1].msg)

\* C10: for every message with two or more channels in the recipient set and
\* every pattern of failures, a delivery is attempted for every channel: when
\* the send to one channel fails, the delivery to every other channel of the
\* set is attempted all the same.
C10_EveryChannelAttempted ==
    Dispatching /\ Cardinality(last[1].rcpt) >= 2 =>
        \A i \in DOMAIN sent :
            IsDelivery(sent[i]) /\ ~sent[i].ok =>
                \A chat \in last[1].rcpt : DeliveriesTo(chat) # {}

\* the message was parsed and relay_mail did not panic
Parsed == Relayed /\ last[1].status # "panic"

\* C11: for every successfully parsed message, data_end answers the temporary
\* failure only if the sends to all channels of the resolved set failed; when
\* the send to at least one channel succeeded the answer is OK, even when the
\* sends to other channels failed.
C11_FailureOnlyIfAllFailed ==
    Parsed /\ (\E i \in Requests(LAMBDA q : IsDelivery(q)) : sent[i].ok) =>
        response = "OK"

\* C12: a failed diagnostic send is always swallowed: relay_mail never ends
\* on the failure of a diagnostic send, and the answer of data_end is the one
\* it would be had the diagnostic been sent.
C12_DiagnosticFailureSwallowed ==
    Parsed /\ last[1].err = "send failed" =>
        \E i \in Requests(LAMBDA q : IsDelivery(q)) : ~sent[i].ok

\* C13: the selected body passes through validate before it is embedded: no
\* text sent to a channel holds a body with the closing marker of the
\* preformatted block, and a first text part that fails validation is left
\* out of the text.
C13_BodyValidated ==
    /\ \A i \in Requests(LAMBDA q : IsDelivery(q)) :
          ~HasClosingMarker(Rendered(sent[i]).markup)
    /\ Dispatching /\ last[1].texts # <<>>
                   /\ validate(last[1].texts[1].markup).kind = "err" =>
          BodyLines(last[1].msg) = {}

\* C14: for every message with T text parts and A attachments the collected
\* list is the text parts from the first unconsumed index (1 when the first
\* text part is the body, else 0) to T-1 in index order, then the attachments
\* 0 to A-1 in index order; the body part is not in the list and no part is
\* skipped or duplicated.
C14_CollectedInOrder ==
    Dispatching =>
        LET l == last[1]
            T == Len(l.texts)
            A == Len(l.atts)
            first == IF BodyLines(l.msg) # {} THEN 1 ELSE l.text_num
        IN /\ Len(l.files) = (T - first) + A
           /\ \A k \in 1..(T - first) : l.files[k] = l.texts[first + k]
           /\ \A k \in 1..A : l.files[(T - first) + k] = l.atts[k]
           /\ \A j, k \in DOMAIN l.files : j # k => l.files[j].id # l.files[k].id
           /\ first = 1 => \A k \in DOMAIN l.files : l.files[k].id # l.texts[1].id

\* C14 witness: the first of two text parts became the body, the second text
\* part and the attachment were collected
C14_Witness ==
    /\ Dispatching
    /\ BodyLines(last[1].msg) # {}
    /\ Len(last[1].texts) = 2 /\ Len(last[1].atts) = 1
    /\ Len(last[1].files) = 2
    /\ last[1].files[1].id = "t1" /\ last[1].files[2].id = "a0"

\* C15: for every envelope, message and pattern of platform failures data_end
\* runs to completion and answers OK or the temporary failure; it never
\* panics and never answers a permanent rejection.
C15_DataEndCompletes ==
    last # None =>
        /\ last[1].status # "panic"
        /\ phase = "idle"
        /\ response \in {"OK", "INTERNAL_ERROR"}

\* C16: for every message no channel receives more than one delivery request
\* (text, document or group): addresses that resolve to the same channel
\* give one delivery, and a failed delivery is not sent again.
C16_OneDeliveryPerChannel ==
    \A i, j \in Requests(LAMBDA q : IsDelivery(q)) :
        i # j => sent[i].to # sent[j].to

\* C16 witness: two envelope addresses fell back to the default channel and
\* one delivery went to it
C16_Witness ==
    /\ Dispatching
    /\ Len(last[1].to) = 2 /\ last[1].to[1] # last[1].to[2]
    /\ last[1].rcpt = {tg.default}
    /\ Cardinality(DeliveriesTo(tg.default)) = 1

FenceLines(msg) == {i \in DOMAIN msg.lines : msg.lines[i].kind = "fence"}

\* C17: when no body is selected (no text part, or a first text part that
\* does not fit) the rendered text is the header lines only: it has no marker
\* of a preformatted block and no empty body block.
C17_HeadersOnlyWithoutBody ==
    Dispatching /\ last[1].text_num = 0 => FenceLines(last[1].msg) = {}

Mismatch == "Hm, we have HTML parts and text parts."

\* relay_mail resolved the recipients and reached the comparison of the
\* HTML and text part counts
Composing == last # None /\ last[1].stage \in {"composing", "dispatching"}

\* C18: for every message the mismatch diagnostic is sent exactly once when
\* the HTML part count differs from the text part count and not at all when
\* they are equal, and composition and the delivery to every resolved channel
\* proceed afterwards in both cases.  (Stated for the runs without a panic,
\* in which no other request fails, and with a group size MediaGroup::new
\* accepts.)
C18_MismatchReportedOnce ==
    Composing /\ last[1].status # "panic"
              /\ Len(last[1].atts) <= MaxGroupItems
              /\ (\A i \in DOMAIN sent : ~sent[i].ok => IsReport(sent[i], Mismatch)) =>
        /\ Cardinality(Requests(LAMBDA q : IsReport(q, Mismatch))) =
              (IF last[1].html_parts # last[1].text_parts THEN 1 ELSE 0)
        /\ \A i \in Requests(LAMBDA q : IsReport(q, Mismatch)) :
              sent[i].to = tg.default
        /\ \A chat \in last[1].rcpt : DeliveriesTo(chat) # {}

Report == "Sending emails failed"

\* C19: when the buffered data cannot be parsed, data_end answers the
\* temporary failure, no delivery is sent to any channel, and exactly one
\* diagnostic, the report of the failure, is sent to the default channel.
C19_ParseFailureReported ==
    last # None /\ last[1].stage = "received" =>
        /\ last[1].err = "Failed to parse mail."
        /\ response = "INTERNAL_ERROR"
        /\ Requests(LAMBDA q : IsDelivery(q)) = {}
        /\ Requests(LAMBDA q : IsDiag(q)) = {1}
        /\ IsReport(sent[1], Report) /\ sent[1].to = tg.default

\* C19 witness: the parser gave no message for the buffered chunks and the
\* report reached the default channel
C19_Witness ==
    /\ last # None /\ last[1].stage = "received"
    /\ last[1].to # <<>>
    /\ response = "INTERNAL_ERROR"
    /\ Len(sent) = 1 /\ sent[1].ok /\ IsReport(sent[1], Report)

\* str::to_lowercase, for the letters of the domains in use
LowerChar(c) ==
    CASE c = "X" -> "x"
      [] c = "Y" -> "y"
      [] c = "Z" -> "z"
      [] OTHER -> c

Lower(text) == [i \in DOMAIN text |-> LowerChar(text[i])]

\* C20: the address matcher yields the local part of an address exactly when
\* the whole domain after "@" equals a configured domain, compared without
\* regard to case; a domain that merely contains a configured one, or extra
\* characters, do not match; a local part of any length is extracted whole.
C20_MatcherExactDomain ==
    resolved # None =>
        LET a == resolved[1].to
            caps == resolved[1].caps
        IN IF /\ HasDomain(a)
              /\ LocalPart(a) # <<>>
              /\ Lower(DomainPart(a)) \in Domains
           THEN /\ caps # None
                /\ \A g \in DOMAIN caps[1] : caps[1][g] = LocalPart(a)
           ELSE caps = None

BadContentType == "Attachment has bad ContentType header."

Placeholder == "Attachment.txt"

\* the name a part declares: the name attribute of a well-formed Content-Type
\* header, when it has one
DeclaredNames(part) ==
    {part.ctypes[j].name[1] : j \in {k \in DOMAIN part.ctypes :
                                      part.ctypes[k].wf /\ part.ctypes[k].name # None}}

\* C21: for every collected part the file name is the name attribute of its
\* Content-Type header when present and well-formed, else the placeholder; a
\* malformed Content-Type header is reported as a diagnostic and counts as no
\* name, and it never makes the delivery to that channel or to a later one
\* fail, even when the diagnostic send fails.  (Stated for the runs in which
\* no other request fails and the group size is one MediaGroup::new accepts.)
C21_FileNamesAndBadHeaders ==
    Dispatching /\ last[1].files # <<>>
                /\ Len(last[1].files) <= MaxGroupItems
                /\ (\A i \in DOMAIN sent :
                       ~sent[i].ok => IsReport(sent[i], BadContentType)) =>
        /\ \A chat \in last[1].rcpt : DeliveriesTo(chat) # {}
        /\ \A i \in Requests(LAMBDA q : IsDelivery(q)) :
              \A k \in DOMAIN sent[i].items :
                 IF DeclaredNames(last[1].files[k]) = {}
                 THEN sent[i].items[k].file.name = Placeholder
                 ELSE sent[i].items[k].file.name \in DeclaredNames(last[1].files[k])

\* C25: rcpt answers OK for every recipient address under both policies:
\* get_id never returns an error, so NO_MAILBOX is never answered, and under
\* the deny policy an address in no configured domain that is no key of the
\* mapping is accepted all the same.
C25_RcptAlwaysOK ==
    /\ response # "NO_MAILBOX"
    /\ resolved # None => response = "OK" /\ phase = "idle"

\* C22: when sessions run concurrently with their callbacks interleaved in
\* any order, the requests and the answer of each session are among those
\* its own envelope and chunks give; the recipient mapping and the domain
\* regex stay as constructed, and the data and headers a session's callbacks
\* see are the ones that session was given.
C22_SessionsIsolated ==
    /\ tg = Transport
    /\ address = NewAddressRegex(Domains)
    /\ \A s \in Sessions :
          /\ servers[s].phase = "data" =>
                /\ servers[s].headers = given[s].env
                /\ servers[s].data = given[s].chunks
          /\ servers[s].phase \in {"idle", "dead"} /\ servers[s].last # None =>
                \E c \in Conclusions(given[s].env, given[s].chunks,
                                      {i \in DOMAIN servers[s].sent :
                                         ~servers[s].sent[i].ok}) :
                   /\ servers[s].response = c.response
                   /\ servers[s].sent = c.sent

\* C22 witness: two sessions that interleaved have both ended, each with the
\* delivery to the channel of its own envelope
C22_Witness ==
    /\ servers[1].last # None /\ servers[2].last # None
    /\ servers[1].phase = "idle" /\ servers[2].phase = "idle"
    /\ given[1].chunks # <<>> /\ given[2].chunks # <<>>
    /\ servers[1].response = "OK" /\ servers[2].response = "OK"
    /\ servers[1].sent[1].to = 222 /\ servers[2].sent[1].to = 100

\* C23: every diagnostic passes through the escaping and validation of body
\* text before it is sent to the default channel: no diagnostic is sent with
\* the closing marker of the preformatted block in its text.
C23_DiagnosticsValidated ==
    \A s \in Sessions :
        \A q \in {servers[s].sent[i] : i \in DOMAIN servers[s].sent}
                  \cup {servers[s].pending[i] : i \in DOMAIN servers[s].pending} :
            IsDiag(q) => ~HasClosingMarker(q.text[1].markup)

\* C24: after every data_end, whether relay_mail succeeded or failed, the
\* data buffer of the session is empty and its headers are absent; the bytes
\* parsed for a message are the chunks received since the previous data_end,
\* in arrival order, and its envelope is that of the latest data_start.
C24_BufferResetAndOwnBytes ==
    \A s \in Sessions :
        /\ servers[s].phase = "idle" =>
              servers[s].data = <<>> /\ servers[s].headers = None
        /\ servers[s].last # None =>
              /\ servers[s].last[1].bytes = given[s].chunks
              /\ servers[s].last[1].hdrs = given[s].env

\* C24 witness: a session ended a message of two chunks with a failure; the
\* chunks were parsed in arrival order and the buffer is empty again
C24_Witness ==
    /\ servers[1].phase = "idle"
    /\ servers[1].response = "INTERNAL_ERROR"
    /\ servers[1].last # None
    /\ servers[1].last[1].bytes = <<Chunk(1, 1), Chunk(1, 2)>>
    /\ servers[1].data = <<>> /\ servers[1].headers = None

====
